---- MODULE Spec2Model ----
(***************************************************************************)
(* Model of src/verbosity.py: the Verbosity class (a registry of named     *)
(* verbosity levels whose class attributes are write-protected by the      *)
(* metaclass VerbosityMeta) and its printer decorator.                    *)
(*                                                                         *)
(* Python values are records [k, v, l]: k is the kind ("int", "none",      *)
(* "list", "absent" for an attribute that does not exist), v the integer   *)
(* of an int, l the elements of a list.                                    *)
(***************************************************************************)
EXTENDS Integers, Sequences, FiniteSets, TLC

\* Largest integer the callers pass as a level value: the callers pass -1,
\* the default value INFO and the unregistered values TOTAL+1..MaxVal.
MaxVal == 4
\* Deepest nesting of calls of decorated functions.
MaxDepth == 2
\* Number of calls of decorated functions in one run.
MaxCalls == 2

IntV(n) == [k |-> "int", v |-> n, l |-> <<>>]
NoneV == [k |-> "none", v |-> 0, l |-> <<>>]
ListV(s) == [k |-> "list", v |-> 0, l |-> s]
Absent == [k |-> "absent", v |-> 0, l |-> <<>>]

\* Arguments the callers pass: a string, an integer, or a value of another
\* type (a float).
StrArg(s) == [t |-> "str", s |-> s, n |-> 0]
IntArg(n) == [t |-> "int", s |-> "", n |-> n]
OtherArg == [t |-> "other", s |-> "", n |-> 0]

\* The default levels, lines 49-52.
NONE == 0
INFO == 1
DEBUG == 2
TOTAL == 3

BuiltinNames == {"NONE", "INFO", "DEBUG", "TOTAL"}

\* Strings the callers pass: a default level name, a fresh name, and the
\* names of two other attributes of the Verbosity class.
StrInputs == {"INFO", "X", "level", "_verbosities"}
IntInputs == {0 - 1, INFO} \cup ((TOTAL + 1)..MaxVal)
AttrNames == BuiltinNames \cup StrInputs
StrArgs == {StrArg(s) : s \in StrInputs}
IntArgs == {IntArg(n) : n \in IntInputs}
ArgInputs == StrArgs \cup IntArgs \cup {OtherArg}

VARIABLES
    is_internal_op,   \* VerbosityMeta._is_internal_op, the mutation gate
    attrs,            \* the attributes of class Verbosity, by name
    verbositiesmap,   \* Verbosity._verbositiesmap: str |-> the entries keyed by name, int |-> those keyed by value
    bindings,         \* the decorated functions: the closure of each outer_wrapper and the arguments printer was given, <<>> before printer is applied
    stack,            \* the calls of decorated functions in progress, outermost first
    trace,            \* what the calls in progress and the last completed one did, in order
    ncalls,           \* number of calls of decorated functions so far
    first,            \* per decorated function, how its first matched call whose wrapped function raised an Exception ended
    last              \* the call that completed last and its outcome

vars == <<is_internal_op, attrs, verbositiesmap, bindings, stack, trace, ncalls, first, last>>

\* The class state an operation works on.
ClassState == [gate |-> is_internal_op, attrs |-> attrs, map |-> verbositiesmap]

Returned(S, r) == [st |-> S, outcome |-> "return", exc |-> "", ret |-> r]
Raised(S, e) == [st |-> S, outcome |-> "raise", exc |-> e, ret |-> NoneV]

\* Verbosity.level and Verbosity._verbosities are class attributes.
level == attrs["level"]
verbosities == attrs["_verbosities"]

RemoveKey(f, key) == [x \in DOMAIN f \ {key} |-> f[x]]

\* list.remove(x): drops the first occurrence.
RECURSIVE ListRemove(_, _)
ListRemove(s, x) ==
    IF s = <<>> THEN <<>>
    ELSE IF Head(s) = x THEN Tail(s)
    ELSE <<Head(s)>> \o ListRemove(Tail(s), x)

\* list.count(x)
ListCount(s, x) == Cardinality({i \in DOMAIN s : s[i] = x})

\* VerbosityMeta.__setattr__ (lines 13-23)
SetAttr(S, name, value) ==
    IF S.gate = FALSE
    THEN Raised(S, "ValueError")
    ELSE Returned([S EXCEPT !.attrs[name] = value], NoneV)

\* _safe_verbosity_modify.wrapper (lines 30-33): r is the outcome of func run
\* with the gate open.
GateOpen(S) == [S EXCEPT !.gate = TRUE]

SafeVerbosityModify(r) ==
    IF r.outcome = "return"
    THEN Returned([r.st EXCEPT !.gate = FALSE], NoneV)
    ELSE r

\* The body of Verbosity.set (lines 97-112)
set_func(S, new_verbosity, verify) ==
    IF new_verbosity.t = "str" THEN
        LET _vb == IF new_verbosity.s \in DOMAIN S.map.str
                   THEN IntV(S.map.str[new_verbosity.s]) ELSE NoneV
        IN  IF verify /\ _vb = NoneV THEN Returned(S, NoneV)
            ELSE IF S.attrs["level"] = Absent THEN Raised(S, "AttributeError")
            ELSE LET _v == S.attrs["level"]
                     w == SetAttr(S, "level", _vb)
                 IN  IF w.outcome = "raise" THEN w ELSE Returned(w.st, _v)
    ELSE IF new_verbosity.t = "int" THEN
        LET _vb == IntV(new_verbosity.n)
        IN  IF verify /\ S.attrs["_verbosities"].k # "list" THEN Raised(S, "AttributeError")
            ELSE IF verify /\ ListCount(S.attrs["_verbosities"].l, new_verbosity.n) = 0
                 THEN Returned(S, NoneV)
            ELSE IF S.attrs["level"] = Absent THEN Raised(S, "AttributeError")
            ELSE LET _v == S.attrs["level"]
                     w == SetAttr(S, "level", _vb)
                 IN  IF w.outcome = "raise" THEN w ELSE Returned(w.st, _v)
    ELSE Raised(S, "TypeError")

\* Verbosity.set as the callers see it (lines 81-83)
set(S, new_verbosity, verify) == SafeVerbosityModify(set_func(GateOpen(S), new_verbosity, verify))

\* The body of Verbosity.add (lines 130-145)
add_func(S, verbosity_name, verbosity_level) ==
    IF verbosity_name.t # "str" \/ verbosity_level.t # "int" THEN Raised(S, "TypeError")
    ELSE IF verbosity_name.s \in DOMAIN S.map.str THEN Returned(S, NoneV)
    ELSE IF verbosity_level.n \in DOMAIN S.map.int THEN Returned(S, NoneV)
    ELSE IF verbosity_level.n = 0 - 1 THEN Returned(S, NoneV)
    ELSE LET w == SetAttr(S, verbosity_name.s, IntV(verbosity_level.n))
         IN  IF w.outcome = "raise" THEN w
             ELSE IF w.st.attrs["_verbosities"].k # "list" THEN Raised(w.st, "AttributeError")
             ELSE Returned(
                    [w.st EXCEPT
                       !.attrs["_verbosities"] = ListV(Append(@.l, verbosity_level.n)),
                       !.map = [str |-> (verbosity_name.s :> verbosity_level.n) @@ @.str,
                                int |-> (verbosity_level.n :> verbosity_name.s) @@ @.int]],
                    NoneV)

\* Verbosity.add as the callers see it (lines 114-116)
add(S, verbosity_name, verbosity_level) ==
    SafeVerbosityModify(add_func(GateOpen(S), verbosity_name, verbosity_level))

\* _del_key that forgets to pop the integer key of the table.
del_key_keeps_int(S, table_key_int, table_key_str) ==
    LET lst == S.attrs["_verbosities"]
        S1 == IF lst.k = "list" /\ ListCount(lst.l, table_key_int) > 0
              THEN [S EXCEPT !.attrs["_verbosities"] = ListV(ListRemove(lst.l, table_key_int))]
              ELSE S
        S3 == [S1 EXCEPT !.map.str = RemoveKey(@, table_key_str)]
    IN  Returned(S3, NoneV)

\* The body of Verbosity._del_key (lines 156-167): each of the three removals
\* is skipped when it fails.
del_key_func(S, table_key_int, table_key_str) ==
    LET lst == S.attrs["_verbosities"]
        S1 == IF lst.k = "list" /\ ListCount(lst.l, table_key_int) > 0
              THEN [S EXCEPT !.attrs["_verbosities"] = ListV(ListRemove(lst.l, table_key_int))]
              ELSE S
        S2 == [S1 EXCEPT !.map.int = RemoveKey(@, table_key_int)]
        S3 == [S2 EXCEPT !.map.str = RemoveKey(@, table_key_str)]
    IN  Returned(S3, NoneV)

\* Verbosity._del_key as remove calls it (lines 147-149)
del_key(S, table_key_int, table_key_str) ==
    SafeVerbosityModify(del_key_func(GateOpen(S), table_key_int, table_key_str))

\* The body of Verbosity.remove (lines 179-195)
remove_func(S, verbosity) ==
    IF verbosity.t = "str" THEN
        IF S.attrs[verbosity.s] = Absent THEN Returned(S, NoneV)
        ELSE LET S1 == [S EXCEPT !.attrs[verbosity.s] = Absent]
             IN  IF verbosity.s \notin DOMAIN S1.map.str THEN Raised(S1, "KeyError")
                 ELSE LET d == del_key(S1, S1.map.str[verbosity.s], verbosity.s)
                      IN  Returned(d.st, NoneV)
    ELSE IF verbosity.t = "int" THEN
        IF verbosity.n \notin DOMAIN S.map.int THEN Returned(S, NoneV)
        ELSE LET nm == S.map.int[verbosity.n]
             IN  IF S.attrs[nm] = Absent THEN Returned(S, NoneV)
                 ELSE LET S1 == [S EXCEPT !.attrs[nm] = Absent]
                          d == del_key(S1, verbosity.n, nm)
                      IN  Returned(d.st, NoneV)
    ELSE Returned(S, NoneV)

\* Verbosity.remove as the callers see it (lines 169-171)
remove(S, verbosity) == SafeVerbosityModify(remove_func(GateOpen(S), verbosity))

\* Verbosity.get_verbosities (lines 72-79): a copy of the whole table.
get_verbosities == verbositiesmap

\* The decorated functions of the program.
Funcs == {"f"}

\* Arguments of a call of a decorated function: positional ones and the
\* names of the keyword ones.
NoArgs == [pos |-> <<>>, kw |-> {}]
CallArgs == {[pos |-> <<7>>, kw |-> {"k"}]}

\* Values a wrapped function returns.
FuncResults == {IntV(42)}

\* Exceptions a wrapped function raises, one of them not derived from
\* Exception, and the exception a message callable raises.
UserExceptions == {"RuntimeError", "KeyboardInterrupt"}
MsgExceptions == {"LookupError"}

\* isinstance(e, Exception), as the except clause of line 295 tests it.
IsException(e) == e # "KeyboardInterrupt"

NoCall == [op |-> "init", a |-> OtherArg, b |-> OtherArg, verify |-> TRUE,
           outcome |-> "return", exc |-> "", ret |-> NoneV,
           snapshot |-> <<>>, undoes |-> FALSE, id |-> 0, func |-> "", args |-> NoArgs,
           entry |-> Absent]

\* The record of a completed registry call with outcome r.
Done(op, a, b, verify, r) ==
    [NoCall EXCEPT !.op = op, !.a = a, !.b = b, !.verify = verify,
                   !.outcome = r.outcome, !.exc = r.exc, !.ret = r.ret]

Init ==
    /\ is_internal_op = FALSE
    /\ attrs = [n \in AttrNames |->
                  CASE n = "NONE" -> IntV(NONE)
                    [] n = "INFO" -> IntV(INFO)
                    [] n = "DEBUG" -> IntV(DEBUG)
                    [] n = "TOTAL" -> IntV(TOTAL)
                    [] n = "_verbosities" -> ListV(<<NONE, INFO, DEBUG, TOTAL>>)
                    [] n = "level" -> IntV(NONE)
                    [] OTHER -> Absent]
    /\ verbositiesmap =
         [str |-> ("NONE" :> NONE) @@ ("INFO" :> INFO) @@ ("DEBUG" :> DEBUG) @@ ("TOTAL" :> TOTAL),
          int |-> (NONE :> "NONE") @@ (INFO :> "INFO") @@ (DEBUG :> "DEBUG") @@ (TOTAL :> "TOTAL")]
    /\ bindings = [f \in Funcs |-> <<>>]
    /\ stack = <<>>
    /\ trace = <<>>
    /\ ncalls = 0
    /\ first = [f \in Funcs |-> "none"]
    /\ last = NoCall

\* The class state after an operation with outcome r.
Commit(r) ==
    /\ is_internal_op' = r.st.gate
    /\ attrs' = r.st.attrs
    /\ verbositiesmap' = r.st.map

\* A caller calls Verbosity.set(new_verbosity, verify).
SetOp(x, verify) ==
    LET r == set(ClassState, x, verify)
    IN  /\ Commit(r)
        /\ last' = Done("set", x, OtherArg, verify, r)
        /\ UNCHANGED <<bindings, stack, trace, ncalls, first>>

\* A caller calls Verbosity.add(verbosity_name, verbosity_level); when the
\* call registers the level, the call record keeps what get_verbosities() and
\* _verbosities were before it.
AddOp(x, y) ==
    LET r == add(ClassState, x, y)
        registered == /\ r.outcome = "return"
                      /\ x.t = "str"
                      /\ x.s \notin DOMAIN verbositiesmap.str
                      /\ x.s \in DOMAIN r.st.map.str
    IN  /\ Commit(r)
        /\ last' = [Done("add", x, y, TRUE, r) EXCEPT
                      !.snapshot = IF registered
                                   THEN <<[map |-> get_verbosities, list |-> verbosities]>>
                                   ELSE <<>>]
        /\ UNCHANGED <<bindings, stack, trace, ncalls, first>>

\* A caller calls Verbosity.remove(verbosity); the call undoes the previous
\* call when that was an add that registered the level named here.
RemoveOp(x) ==
    LET r == remove(ClassState, x)
        undoes == /\ last.op = "add"
                  /\ last.snapshot # <<>>
                  /\ x \in {last.a, last.b}
    IN  /\ Commit(r)
        /\ last' = [Done("remove", x, OtherArg, TRUE, r) EXCEPT
                      !.undoes = undoes,
                      !.snapshot = IF undoes THEN last.snapshot ELSE <<>>]
        /\ UNCHANGED <<bindings, stack, trace, ncalls, first>>

\* A caller assigns Verbosity.level = n directly.
AssignOp(n) ==
    LET r == SetAttr(ClassState, "level", IntV(n))
    IN  /\ Commit(r)
        /\ last' = Done("assign", IntArg(n), OtherArg, TRUE, r)
        /\ UNCHANGED <<bindings, stack, trace, ncalls, first>>

Set == \E x \in ArgInputs, verify \in BOOLEAN : SetOp(x, verify)
Add == \E x \in StrArgs \cup {OtherArg}, y \in IntArgs \cup {OtherArg} : AddOp(x, y)
Remove == \E x \in ArgInputs : RemoveOp(x)
Assign == \E n \in IntInputs : AssignOp(n)

\* The registry operations called from the top level of the program.
Next == Set \/ Add \/ Remove \/ Assign

Spec == Init /\ [][Next]_vars

\* ------------------------------------------------------------------
\* Verbosity.printer: the decorated functions
\* ------------------------------------------------------------------

\* The messages of a binding: a format string with its number of positional
\* replacement fields, None, a callable of the user, or a tuple.
StrMsg(text) == [kind |-> "str", text |-> text, fields |-> 0]
NoMsg == [kind |-> "none", text |-> "", fields |-> 0]
CallableMsg == [kind |-> "callable", text |-> "", fields |-> 0]

\* The tuple (Verbosity.PARAMETERS, target), and the tuple (target, 9) with
\* the arguments of target fixed in it.
ParamsMsg == [kind |-> "params", text |-> "", fields |-> 0]
FixedMsg == [kind |-> "fixed", text |-> "", fields |-> 0]
FixedArgs == <<9>>

\* The default of parameter end of _handle_msg (line 199).
DefaultEnd == "\n"

\* The bindings the program creates: the arguments of Verbosity.printer
\* (lines 235-237); rethrow is "none", "true", "false" or "other" (not a bool).
Configs ==
    [verb : {INFO},
     msg_before : {StrMsg("start"), CallableMsg},
     msg_after : {StrMsg("done")},
     msg_except : {NoMsg, StrMsg("fail")},
     rethrow : {"none", "true", "false"},
     bubble : BOOLEAN,
     out_end : {";"},
     flush : {TRUE}]

\* An entry of the trace: what happened (ev), in which call (id), and the
\* text, arguments or exception it carries.
Ev(ev, id) == [ev |-> ev, id |-> id, text |-> "", pos |-> <<>>, kw |-> {}, e |-> "", val |-> NoneV]

\* The state a call works on; res is the outcome of the call that ended.
Machine ==
    [st |-> ClassState, bindings |-> bindings, stack |-> stack, trace |-> trace, res |-> <<>>]

Top(M) == M.stack[Len(M.stack)]
SetTop(M, f) == [M EXCEPT !.stack[Len(M.stack)] = f]
SetPc(M, pc) == [M EXCEPT !.stack[Len(M.stack)].pc = pc]
Emit(M, event) == [M EXCEPT !.trace = Append(@, event)]
Binding(M) == M.bindings[Top(M).func][1]

\* The call on top of the stack ends: wrapper of printer (lines 277-304) has
\* no return statement, and _safe_verbosity_modify.wrapper (lines 32-33)
\* closes the gate when it returned.
Finish(M, outcome, exc) ==
    LET f == Top(M)
        r == SafeVerbosityModify(IF outcome = "return"
                                 THEN Returned(M.st, NoneV)
                                 ELSE Raised(M.st, exc))
    IN  [M EXCEPT !.st = r.st,
                  !.stack = SubSeq(@, 1, Len(@) - 1),
                  !.res = <<[outcome |-> r.outcome, exc |-> r.exc, ret |-> r.ret,
                             id |-> f.id, func |-> f.func, args |-> f.args,
                             entry |-> f.entry]>>]

\* str.format(*args) (line 214): the text with its replacement fields filled
\* by the first positional arguments.
Format(msg, pos) == [text |-> msg.text, pos |-> SubSeq(pos, 1, msg.fields)]

\* Verbosity._handle_msg (lines 198-232), called for call id with message
\* msg, positional arguments pos, exception e ("" when None), and the
\* remaining keyword arguments kw.  The outcome is "done", "raise", or "call"
\* when a callable of the user has been entered; the entry "msg_call" of the
\* trace holds the arguments it was entered with, the exception apart from
\* the other positional ones.
handle_msg(M, id, msg, pos, e, end, flush, kw) ==
    IF msg.kind = "callable" THEN
        [m |-> Emit(M, [Ev("msg_call", id) EXCEPT !.e = e]), outcome |-> "call", exc |-> ""]
    ELSE IF msg.kind = "str" THEN
        IF msg.fields > Len(pos) THEN [m |-> M, outcome |-> "raise", exc |-> "IndexError"]
        ELSE LET fmt == Format(msg, pos)
                 M1 == Emit(M, [Ev("write", id) EXCEPT !.text = fmt.text, !.pos = fmt.pos])
                 M2 == IF msg.text # "" THEN Emit(M1, [Ev("write", id) EXCEPT !.text = end]) ELSE M1
                 M3 == IF flush THEN Emit(M2, Ev("flush", id)) ELSE M2
             IN  [m |-> M3, outcome |-> "done", exc |-> ""]
    ELSE IF msg.kind = "params" THEN
        [m |-> Emit(M, [Ev("msg_call", id) EXCEPT !.e = e, !.pos = pos, !.kw = kw]),
         outcome |-> "call", exc |-> ""]
    ELSE IF msg.kind = "fixed" THEN
        [m |-> Emit(M, [Ev("msg_call", id) EXCEPT !.e = e, !.pos = FixedArgs]),
         outcome |-> "call", exc |-> ""]
    ELSE IF msg.kind = "none" THEN [m |-> M, outcome |-> "done", exc |-> ""]
    ELSE [m |-> M, outcome |-> "raise", exc |-> "TypeError"]

\* The calls of _handle_msg in wrapper (lines 287, 296, 301): out_end is
\* passed under that name, so it lands in kw and end keeps its default.
Dispatch(M, slot, e) ==
    LET f == Top(M)
        cfg == Binding(M)
    IN  handle_msg(Emit(M, [Ev(slot, f.id) EXCEPT !.e = e]), f.id, cfg[slot], f.args.pos, e,
                   DefaultEnd, cfg.flush, f.args.kw \cup {"out_end"})

\* An except clause that never raises again.
AfterExcept_swallows(M) == Finish(M, "return", "")

\* Lines 298-299, after the except message has been handled.
AfterExcept(M) ==
    IF Binding(M).rethrow = "true"
    THEN Finish(M, "raise", Top(M).e)
    ELSE Finish(M, "return", "")

\* The except clause (lines 295-299) for exception e.
Except(M, e) ==
    LET M1 == SetTop(M, [Top(M) EXCEPT !.e = e])
        h == Dispatch(M1, "msg_except", e)
    IN  CASE h.outcome = "done" -> AfterExcept(h.m)
          [] h.outcome = "call" -> SetPc(h.m, "msg_except")
          [] OTHER -> Finish(h.m, "raise", h.exc)

\* The else clause (lines 300-302).
After(M) ==
    LET h == Dispatch(M, "msg_after", "")
    IN  CASE h.outcome = "done" -> Finish(h.m, "return", "")
          [] h.outcome = "call" -> SetPc(h.m, "msg_after")
          [] OTHER -> Finish(h.m, "raise", h.exc)

\* func(*args, **kwargs) (lines 293, 304): the wrapped function starts.
Invoke(M) ==
    LET f == Top(M)
    IN  Emit(SetPc(M, "func"), [Ev("invoke", f.id) EXCEPT !.pos = f.args.pos, !.kw = f.args.kw])

\* Lines 290-293: the start of the try block.
EnterTry(M) ==
    IF M.st.attrs["level"] = Absent THEN Except(M, "AttributeError")
    ELSE LET M1 == SetTop(M, [Top(M) EXCEPT !._v = M.st.attrs["level"]])
             w == IF Binding(M).bubble = FALSE
                  THEN SetAttr(M1.st, "level", IntV(0 - 1))
                  ELSE Returned(M1.st, NoneV)
         IN  IF w.outcome = "raise" THEN Except(M1, w.exc)
             ELSE Invoke([M1 EXCEPT !.st = w.st])

\* Line 287: the before message.
Before(M) ==
    LET h == Dispatch(M, "msg_before", "")
    IN  CASE h.outcome = "done" -> EnterTry(h.m)
          [] h.outcome = "call" -> SetPc(h.m, "msg_before")
          [] OTHER -> Finish(h.m, "raise", h.exc)

\* The stack frame of a call of a decorated function: id numbers the calls,
\* pc is the code of the user that is running ("func", or the message callable
\* "msg_before", "msg_except", "msg_after"), is_ and _v are the variables of
\* wrapper, e the exception being handled, entry the level at the call.
\* A call of decorated function func: _safe_verbosity_modify.wrapper opens the
\* gate (line 31) and wrapper of printer runs up to the point where code of
\* the user takes over (lines 279-293, 304).
wrapper(M0, func, args, id) ==
    LET frame == [id |-> id, func |-> func, pc |-> "start", is_ |-> FALSE,
                  _v |-> NoneV, args |-> args, e |-> "", entry |-> M0.st.attrs["level"]]
        M == [M0 EXCEPT !.st = GateOpen(@), !.stack = Append(@, frame)]
        cfg == M.bindings[func][1]
    IN  IF M.st.attrs["level"] = Absent THEN Finish(M, "raise", "AttributeError")
        ELSE IF M.st.attrs["level"] = IntV(cfg.verb) THEN
            IF cfg.rethrow = "other" THEN Finish(M, "raise", "TypeError")
            ELSE LET rethrow == IF cfg.msg_except.kind = "none"
                                THEN (IF cfg.rethrow # "none" THEN "true" ELSE "false")
                                ELSE cfg.rethrow
                     M1 == [SetTop(M, [frame EXCEPT !.is_ = TRUE]) EXCEPT
                              !.bindings[func][1].rethrow = rethrow]
                 IN  Before(M1)
        ELSE Invoke(M)

\* A wrapper that goes on to the after message without line 294.
func_returned_no_restore(M) ==
    IF Top(M).is_ THEN After(M) ELSE Finish(M, "return", "")

\* The wrapped function returned (line 294 and the else clause, or line 304).
func_returned(M) ==
    LET f == Top(M)
    IN  IF f.is_ THEN
            LET w == SetAttr(M.st, "level", f._v)
            IN  IF w.outcome = "raise" THEN Except(M, w.exc)
                ELSE After(Emit([M EXCEPT !.st = w.st], [Ev("restore", f.id) EXCEPT !.val = f._v]))
        ELSE Finish(M, "return", "")

\* A wrapper whose unmatched path swallows the exception of func.
func_raised_swallows(M, e) ==
    IF Top(M).is_ /\ IsException(e) THEN Except(M, e) ELSE Finish(M, "return", "")

\* The wrapped function raised e: caught at line 295 in a matched call when
\* e is an Exception.
func_raised(M, e) ==
    IF Top(M).is_ /\ IsException(e) THEN Except(M, e) ELSE Finish(M, "raise", e)

\* A callable message returned.
msg_returned(M) ==
    CASE Top(M).pc = "msg_before" -> EnterTry(M)
      [] Top(M).pc = "msg_except" -> AfterExcept(M)
      [] OTHER -> Finish(M, "return", "")

\* The state after a step of a call.
CommitCall(M) ==
    /\ Commit(M)
    /\ bindings' = M.bindings
    /\ stack' = M.stack
    /\ trace' = M.trace
    /\ last' = IF M.res = <<>>
               THEN [NoCall EXCEPT !.op = "running", !.id = Top(M).id]
               ELSE [NoCall EXCEPT !.op = "call", !.outcome = M.res[1].outcome,
                                   !.exc = M.res[1].exc, !.ret = M.res[1].ret,
                                   !.id = M.res[1].id, !.func = M.res[1].func,
                                   !.args = M.res[1].args, !.entry = M.res[1].entry]
    /\ first' = IF /\ M.res # <<>>
                   /\ first[M.res[1].func] = "none"
                   /\ M.res[1].entry = IntV(M.bindings[M.res[1].func][1].verb)
                   /\ \E i \in DOMAIN M.trace :
                         /\ M.trace[i].id = M.res[1].id
                         /\ M.trace[i].ev = "func_raise"
                         /\ IsException(M.trace[i].e)
                THEN [first EXCEPT ![M.res[1].func] = M.res[1].outcome]
                ELSE first

\* The program applies Verbosity.printer(...) to function f.
Printer ==
    \E f \in Funcs, cfg \in Configs :
        /\ stack = <<>>
        /\ bindings[f] = <<>>
        /\ bindings' = [bindings EXCEPT ![f] = <<cfg, cfg>>]
        /\ last' = [NoCall EXCEPT !.op = "printer", !.func = f]
        /\ UNCHANGED <<is_internal_op, attrs, verbositiesmap, stack, trace, ncalls, first>>

\* Code of the user (the top level, a wrapped function, a message callable)
\* calls decorated function f.  The trace restarts with a call from the top
\* level.
Call ==
    \E f \in Funcs, args \in CallArgs :
        /\ bindings[f] # <<>>
        /\ Len(stack) < MaxDepth
        /\ ncalls < MaxCalls
        /\ ncalls' = ncalls + 1
        /\ CommitCall(wrapper([Machine EXCEPT !.trace = IF stack = <<>> THEN <<>> ELSE @],
                              f, args, ncalls + 1))

\* The wrapped function of the innermost call returns val.
FuncReturns ==
    \E val \in FuncResults :
        /\ stack # <<>>
        /\ Top(Machine).pc = "func"
        /\ CommitCall(func_returned(Emit(Machine, [Ev("func_return", Top(Machine).id) EXCEPT !.val = val])))
        /\ UNCHANGED ncalls

\* The wrapped function of the innermost call raises e.
FuncRaises ==
    \E e \in UserExceptions :
        /\ stack # <<>>
        /\ Top(Machine).pc = "func"
        /\ CommitCall(func_raised(Emit(Machine, [Ev("func_raise", Top(Machine).id) EXCEPT !.e = e]), e))
        /\ UNCHANGED ncalls

\* The message callable of the innermost call returns.
MsgReturns ==
    /\ stack # <<>>
    /\ Top(Machine).pc \in {"msg_before", "msg_except", "msg_after"}
    /\ CommitCall(msg_returned(Machine))
    /\ UNCHANGED ncalls

\* The message callable of the innermost call raises e, which no handler of
\* wrapper catches.
MsgRaises ==
    \E e \in MsgExceptions :
        /\ stack # <<>>
        /\ Top(Machine).pc \in {"msg_before", "msg_except", "msg_after"}
        /\ CommitCall(Finish(Emit(Machine, [Ev("msg_raise", Top(Machine).id) EXCEPT !.e = e]),
                             "raise", e))
        /\ UNCHANGED ncalls

\* The registry operations the code of the user performs around and inside
\* the calls of decorated functions.
PrinterSet == \E x \in {IntArg(NONE), IntArg(INFO), OtherArg} : SetOp(x, TRUE)
PrinterRemove == RemoveOp(StrArg("level"))
PrinterAssign == AssignOp(INFO)

NextPrinter ==
    \/ Printer \/ Call \/ FuncReturns \/ FuncRaises \/ MsgReturns \/ MsgRaises
    \/ PrinterSet \/ PrinterRemove \/ PrinterAssign

SpecPrinter == Init /\ [][NextPrinter]_vars

\* The decorated calls with the code of the user assigning Verbosity.level
\* directly, and no registry call that raises.
GateSet == \E x \in {IntArg(NONE), IntArg(INFO)} : SetOp(x, TRUE)

NextGate ==
    \/ Printer \/ Call \/ FuncReturns \/ FuncRaises \/ MsgReturns \/ MsgRaises
    \/ GateSet \/ PrinterAssign

SpecGate == Init /\ [][NextGate]_vars

\* Bindings whose messages are strings, callables and tuples, with and
\* without flush.
DispatchConfigs ==
    [verb : {INFO},
     msg_before : {StrMsg(""), ParamsMsg},
     msg_after : {CallableMsg, FixedMsg},
     msg_except : {NoMsg, StrMsg("fail"), ParamsMsg},
     rethrow : {"none", "true", "false"},
     bubble : BOOLEAN,
     out_end : {";"},
     flush : BOOLEAN]

\* The program applies Verbosity.printer(...) with such a binding to f.
PrinterDispatch ==
    \E f \in Funcs, cfg \in DispatchConfigs :
        /\ stack = <<>>
        /\ bindings[f] = <<>>
        /\ bindings' = [bindings EXCEPT ![f] = <<cfg, cfg>>]
        /\ last' = [NoCall EXCEPT !.op = "printer", !.func = f]
        /\ UNCHANGED <<is_internal_op, attrs, verbositiesmap, stack, trace, ncalls, first>>

\* The top level of the program calls Verbosity.set between the calls of
\* decorated functions.
TopSet ==
    /\ stack = <<>>
    /\ \E x \in {IntArg(NONE), IntArg(INFO)} : SetOp(x, TRUE)

\* The decorated calls of a program whose wrapped functions and message
\* callables call decorated functions and perform no registry operation.
NextDispatch ==
    \/ PrinterDispatch \/ Call \/ FuncReturns \/ FuncRaises \/ MsgReturns \/ MsgRaises
    \/ TopSet

SpecDispatch == Init /\ [][NextDispatch]_vars

\* ------------------------------------------------------------------
\* Properties of the registry operations
\* ------------------------------------------------------------------

\* The argument names a level that is registered now.
IsRegistered(x) ==
    \/ x.t = "str" /\ x.s \in DOMAIN verbositiesmap.str
    \/ x.t = "int" /\ x.n \in DOMAIN verbositiesmap.int

ListElems(s) == {s[i] : i \in DOMAIN s}

\* C1: after any sequence of set, add and remove calls the name-to-value and
\* value-to-name tables are inverses of each other, _verbosities holds
\* exactly the values of the table, and -1 is not among them.
C1_RegistryConsistent ==
    /\ \A n \in DOMAIN verbositiesmap.str :
          /\ verbositiesmap.str[n] \in DOMAIN verbositiesmap.int
          /\ verbositiesmap.int[verbositiesmap.str[n]] = n
    /\ \A v \in DOMAIN verbositiesmap.int :
          /\ verbositiesmap.int[v] \in DOMAIN verbositiesmap.str
          /\ verbositiesmap.str[verbositiesmap.int[v]] = v
    /\ verbosities.k = "list"
    /\ ListElems(verbosities.l) = DOMAIN verbositiesmap.int
    /\ (0 - 1) \notin ListElems(verbosities.l)

\* C2: when a call of set, add or remove has completed, by returning or by
\* raising, the mutation gate is closed.
C2_GateClosedAfterCall ==
    last.op \in {"set", "add", "remove"} => is_internal_op = FALSE

\* C4: set(X, verify=True) with X neither a registered name nor a registered
\* value leaves level unchanged, and set(X, verify=False) with an integer X
\* makes level equal to X.
C4_SetVerify ==
    [][last'.op = "set" =>
        /\ (last'.verify /\ ~IsRegistered(last'.a) => level' = level)
        /\ (~last'.verify /\ last'.a.t = "int" => level' = IntV(last'.a.n))]_vars

\* C5: a set that resolves its argument (a registered name, a registered
\* integer, any integer when verify is False) makes level the resolved value
\* and returns the level of before the call.
C5_SetReturnsOld ==
    [][(/\ last'.op = "set"
        /\ \/ IsRegistered(last'.a)
           \/ last'.a.t = "int" /\ ~last'.verify)
       =>
        /\ level' = IntV(IF last'.a.t = "str" THEN verbositiesmap.str[last'.a.s] ELSE last'.a.n)
        /\ last'.outcome = "return"
        /\ last'.ret = level]_vars

\* C6: set with a string that is not a registered name and verify=False
\* changes neither level nor the registry tables.
C6_SetUnknownNameNoVerify ==
    [][(/\ last'.op = "set"
        /\ last'.a.t = "str"
        /\ ~IsRegistered(last'.a)
        /\ ~last'.verify)
       =>
        /\ level' = level
        /\ level'.k = "int"
        /\ verbositiesmap' = verbositiesmap
        /\ verbosities' = verbosities]_vars

\* C7: add(name, value) with a string and an integer registers the pair
\* exactly when the name is not registered, the value is not registered and
\* the value is not -1; otherwise it changes neither table nor _verbosities
\* and raises nothing.
C7_AddRegisters ==
    [][(last'.op = "add" /\ last'.a.t = "str" /\ last'.b.t = "int") =>
        IF /\ ~IsRegistered(last'.a)
           /\ ~IsRegistered(last'.b)
           /\ last'.b.n # 0 - 1
        THEN /\ last'.a.s \in DOMAIN verbositiesmap'.str
             /\ last'.b.n \in DOMAIN verbositiesmap'.int
             /\ verbositiesmap'.str[last'.a.s] = last'.b.n
             /\ verbositiesmap'.int[last'.b.n] = last'.a.s
        ELSE /\ verbositiesmap' = verbositiesmap
             /\ verbosities' = verbosities
             /\ last'.outcome = "return"]_vars

C9_RemoveUnregistered ==
    [][(/\ last'.op = "remove"
        /\ last'.a.t \in {"str", "int"}
        /\ ~IsRegistered(last'.a))
       =>
        /\ last'.outcome = "return"
        /\ attrs' = attrs
        /\ verbositiesmap' = verbositiesmap]_vars

\* ------------------------------------------------------------------
\* Properties of the mutation gate and of the decorated calls
\* ------------------------------------------------------------------

\* C3: wherever code of the user runs (before, between and after the
\* operations, in a wrapped function, in a message callable) a direct
\* assignment to Verbosity.level raises the protection error and changes
\* nothing.
C3_DirectAssignFails ==
    [][last'.op = "assign" =>
        /\ last'.outcome = "raise"
        /\ last'.exc = "ValueError"
        /\ attrs' = attrs
        /\ verbositiesmap' = verbositiesmap]_vars

\* The call described by r (a stack frame or the call record) was made while
\* level had a value other than the verb of its binding.
Unmatched(r) ==
    /\ r.entry.k # "absent"
    /\ r.entry # IntV(bindings[r.func][1].verb)

EngineEvents == {"msg_before", "msg_after", "msg_except", "msg_call", "write", "flush", "restore"}

\* Call id dispatched no message, wrote nothing, and invoked the wrapped
\* function once, with args.
OnlyInvoked(id, args) ==
    /\ \A i \in DOMAIN trace : trace[i].id = id => trace[i].ev \notin EngineEvents
    /\ Cardinality({i \in DOMAIN trace : trace[i].id = id /\ trace[i].ev = "invoke"}) = 1
    /\ \A i \in DOMAIN trace :
          (trace[i].id = id /\ trace[i].ev = "invoke") =>
              /\ trace[i].pos = args.pos
              /\ trace[i].kw = args.kw

C10_NoMessages ==
    /\ \A k \in DOMAIN stack : Unmatched(stack[k]) => OnlyInvoked(stack[k].id, stack[k].args)
    /\ (last.op = "call" /\ Unmatched(last)) =>
          /\ OnlyInvoked(last.id, last.args)
          /\ \A i \in DOMAIN trace :
                (trace[i].id = last.id /\ trace[i].ev = "func_raise") =>
                    /\ last.outcome = "raise"
                    /\ last.exc = trace[i].e

C10_LevelKept ==
    /\ (Len(stack') = Len(stack) + 1 /\ Unmatched(stack'[Len(stack')])) => level' = level
    /\ (Len(stack') = Len(stack) - 1 /\ last'.op = "call" /\ Unmatched(last')) => level' = level

\* C10: a call of a decorated function made while level differs from the verb
\* of the binding dispatches no message and writes nothing, invokes the
\* wrapped function once with the arguments of the call, does not change
\* level, and an exception of the wrapped function reaches the caller as it
\* was raised.
C10_UnmatchedCall == []C10_NoMessages /\ [][C10_LevelKept]_vars

C10_Witness ==
    /\ last.op = "call"
    /\ Unmatched(last)
    /\ last.outcome = "raise"
    /\ last.exc \in UserExceptions
    /\ last.args.pos # <<>>

\* C11: a call of a decorated function whose wrapped function returned
\* normally returns to its caller the value the wrapped function returned,
\* when the call was matched and when it was not.
C11_ReturnsResult ==
    (last.op = "call" /\ last.outcome = "return") =>
        \A i \in DOMAIN trace :
            (trace[i].id = last.id /\ trace[i].ev = "func_return") => last.ret = trace[i].val

\* The call described by r was made while level was the verb of its binding.
Matched(r) == r.entry = IntV(bindings[r.func][1].verb)

\* The wrapped function of call id returned, or raised.
FuncReturned(id) == \E i \in DOMAIN trace : trace[i].id = id /\ trace[i].ev = "func_return"
FuncRaised(id) == \E i \in DOMAIN trace : trace[i].id = id /\ trace[i].ev = "func_raise"

\* The wrapped function of call id called no decorated function.
NoCallFromFunc(id) ==
    \A i, j \in DOMAIN trace :
        (/\ trace[i].id = id /\ trace[i].ev = "invoke"
         /\ trace[j].id = id /\ trace[j].ev \in {"func_return", "func_raise"})
        => \A k \in i..j : trace[k].id = id

\* Neither the wrapped function nor a message callable of call id called a
\* decorated function (the calls made inside call id have greater ids), and no
\* message callable of call id raised.
Undisturbed(id) ==
    \A i \in DOMAIN trace :
        /\ trace[i].id <= id
        /\ ~(trace[i].id = id /\ trace[i].ev = "msg_raise")

\* What wrapper did in call id, in order: the messages it dispatched, the
\* invocation of the wrapped function, the restoring of the saved level.
WrapperSteps == {"msg_before", "invoke", "restore", "msg_after", "msg_except"}
Steps(id) ==
    LET own == SelectSeq(trace, LAMBDA x : x.id = id /\ x.ev \in WrapperSteps)
    IN  [i \in DOMAIN own |-> own[i].ev]

MatchedOrder == <<"msg_before", "invoke", "restore", "msg_after">>

\* C12 as stated: in a matched call whose wrapped function performs no
\* registry operation, calls no decorated function and returns normally, the
\* before message is dispatched, the wrapped function invoked, the saved level
\* restored and the after message dispatched, once each and in this order,
\* the except message is not dispatched and no exception reaches the caller.
C12_MatchedOrder ==
    (/\ last.op = "call"
     /\ Matched(last)
     /\ FuncReturned(last.id)
     /\ NoCallFromFunc(last.id))
    => /\ Steps(last.id) = MatchedOrder
       /\ last.outcome = "return"

\* C12 amended: the same, for a matched call in which the message callables
\* too call no decorated function, perform no registry operation (no code
\* running inside a call does, in SpecDispatch) and return normally.
C12_MatchedOrderUndisturbed ==
    (/\ last.op = "call"
     /\ Matched(last)
     /\ FuncReturned(last.id)
     /\ Undisturbed(last.id))
    => /\ Steps(last.id) = MatchedOrder
       /\ last.outcome = "return"

C12_Witness ==
    /\ last.op = "call"
    /\ Matched(last)
    /\ FuncReturned(last.id)
    /\ Undisturbed(last.id)
    /\ bindings[last.func][1].bubble = FALSE
    /\ bindings[last.func][1].msg_before = ParamsMsg
    /\ Steps(last.id) = MatchedOrder

\* Call inner was made by the wrapped function of call outer.
CalledFromFunc(inner, outer) ==
    \E i, j \in DOMAIN trace :
        /\ trace[i].id = outer /\ trace[i].ev = "invoke"
        /\ trace[j].id = outer /\ trace[j].ev \in {"func_return", "func_raise"}
        /\ \A k \in DOMAIN trace : trace[k].id = inner => (i < k /\ k < j)

\* C13: when the wrapped function of a matched call with bubble=true calls a
\* decorated function whose binding matches too, with bubble=true, and both
\* functions return normally, each layer dispatches its before message and
\* its after message once, around its function (outer before, inner before,
\* function, inner after, outer after), no layer dispatches its except
\* message, and the outer call returns without an exception.
C13_NestedLayers ==
    (/\ last.op = "call"
     /\ Matched(last)
     /\ bindings[last.func][1].bubble
     /\ FuncReturned(last.id)
     /\ FuncReturned(last.id + 1)
     /\ CalledFromFunc(last.id + 1, last.id)
     /\ \A i \in DOMAIN trace : trace[i].id <= last.id + 1 /\ trace[i].ev # "msg_raise")
    => /\ Steps(last.id + 1) = MatchedOrder
       /\ Steps(last.id) = MatchedOrder
       /\ last.outcome = "return"

\* The wrapped function of a matched call with bubble=false is running in
\* frame k of the stack.
Suspending(k) ==
    /\ Matched(stack[k])
    /\ bindings[stack[k].func][1].bubble = FALSE
    /\ stack[k].pc = "func"

C14_SuspendedInside ==
    \A k \in DOMAIN stack :
        Suspending(k) =>
            /\ level = IntV(0 - 1)
            /\ \A j \in DOMAIN stack : j > k => OnlyInvoked(stack[j].id, stack[j].args)

C14_RestoredAfter ==
    (last.op = "call" /\ Matched(last) /\ bindings[last.func][1].bubble = FALSE)
    => level = last.entry

\* C14: in a matched call with bubble=false level is -1 while the wrapped
\* function runs, the decorated calls made from it dispatch nothing, and when
\* the call has completed, by returning, by swallowing the exception or by
\* raising it again, level is what it was when the call was made.  (In
\* SpecDispatch no code running inside a call changes level by a registry
\* operation.)
C14_Suspension == C14_SuspendedInside /\ C14_RestoredAfter

\* The arguments Verbosity.printer was given for decorated function f.
Given(f) == bindings[f][2]

\* The exception the wrapped function of call id raised is e.
FuncRaisedWith(id, e) ==
    \E i \in DOMAIN trace : trace[i].id = id /\ trace[i].ev = "func_raise" /\ trace[i].e = e

Dispatched(id, slot) == \E i \in DOMAIN trace : trace[i].id = id /\ trace[i].ev = slot

\* C15: in a matched call of a binding made with msg_except=None and rethrow
\* not given, when the wrapped function raises, the before message has been
\* dispatched, the after message is not dispatched, and the exception of the
\* wrapped function reaches the caller.
C15_NoExceptPropagates ==
    (/\ last.op = "call"
     /\ Matched(last)
     /\ FuncRaised(last.id)
     /\ Given(last.func).msg_except = NoMsg
     /\ Given(last.func).rethrow = "none")
    => /\ Dispatched(last.id, "msg_before")
       /\ ~Dispatched(last.id, "msg_after")
       /\ last.outcome = "raise"
       /\ FuncRaisedWith(last.id, last.exc)

\* What C16 says of the completed call: its except message, when the binding
\* was given one, dispatched once with the exception of the wrapped function,
\* no after message, and the outcome the arguments of the binding call for.
ExceptPolicy ==
    LET g == Given(last.func)
        excepts == {i \in DOMAIN trace : trace[i].id = last.id /\ trace[i].ev = "msg_except"}
    IN  /\ g.msg_except # NoMsg =>
              /\ Cardinality(excepts) = 1
              /\ \A i \in excepts : FuncRaisedWith(last.id, trace[i].e)
        /\ ~Dispatched(last.id, "msg_after")
        /\ (g.rethrow = "true" \/ (g.msg_except = NoMsg /\ g.rethrow # "none")) =>
              /\ last.outcome = "raise"
              /\ FuncRaisedWith(last.id, last.exc)
        /\ (g.msg_except # NoMsg /\ g.rethrow \in {"false", "none"}) =>
              /\ last.outcome = "return"
              /\ last.ret = NoneV

\* C16 as stated: in a matched call whose wrapped function raises, the except
\* message (if given) is dispatched once with the exception, the after
\* message is not dispatched; the exception is raised again when rethrow is
\* true, or when no except message was given and rethrow was given (True or
\* False); with an except message and rethrow False or not given the call
\* returns None.
C16_ExceptPolicy ==
    (last.op = "call" /\ Matched(last) /\ FuncRaised(last.id)) => ExceptPolicy

\* C16 amended: the same, when the exception of the wrapped function is an
\* Exception and dispatching the except message raises nothing.
C16_ExceptPolicyOfException ==
    (/\ last.op = "call"
     /\ Matched(last)
     /\ \E e \in UserExceptions : IsException(e) /\ FuncRaisedWith(last.id, e)
     /\ ~Dispatched(last.id, "msg_raise"))
    => ExceptPolicy

C16_Witness ==
    /\ last.op = "call"
    /\ Matched(last)
    /\ \E e \in UserExceptions : IsException(e) /\ FuncRaisedWith(last.id, e)
    /\ ~Dispatched(last.id, "msg_raise")
    /\ Given(last.func).msg_except = NoMsg
    /\ Given(last.func).rethrow = "false"
    /\ last.outcome = "raise"

MessageSlots == {"msg_before", "msg_after", "msg_except"}

\* Entry k of the trace is a flush of the sink by call id.
FlushAt(k, id) == k \in DOMAIN trace /\ trace[k].ev = "flush" /\ trace[k].id = id

\* Entry k of the trace is a write of text to the sink by call id.
WriteAt(k, id, text) ==
    k \in DOMAIN trace /\ trace[k].ev = "write" /\ trace[k].id = id /\ trace[k].text = text

\* Every string message dispatched in call id, of a binding made with
\* arguments g, wrote its text, then g.out_end when the text is not empty,
\* and then flushed the sink exactly when g.flush is true.
StringDispatch(id, g) ==
    \A i \in DOMAIN trace :
        (trace[i].id = id /\ trace[i].ev \in MessageSlots /\ g[trace[i].ev].kind = "str") =>
            LET text == g[trace[i].ev].text
            IN  /\ WriteAt(i + 1, id, text)
                /\ IF text # ""
                   THEN /\ WriteAt(i + 2, id, g.out_end)
                        /\ g.flush <=> FlushAt(i + 3, id)
                   ELSE g.flush <=> FlushAt(i + 2, id)

\* C17: when a string message of a binding is dispatched, the sink receives
\* the formatted text, then the out_end of the binding if the text is not
\* empty, and is flushed exactly when the flush of the binding is true.
C17_StringToSink ==
    /\ \A k \in DOMAIN stack : StringDispatch(stack[k].id, Given(stack[k].func))
    /\ last.op = "call" => StringDispatch(last.id, Given(last.func))

\* Every message (Verbosity.PARAMETERS, target) dispatched in call id, made
\* with arguments args of a binding made with arguments g, entered target
\* with the positional and the keyword arguments of the call and nothing
\* else, after the exception in the except slot.
ParamsDispatch(id, g, args) ==
    \A i \in DOMAIN trace :
        (trace[i].id = id /\ trace[i].ev \in MessageSlots /\ g[trace[i].ev].kind = "params") =>
            /\ i + 1 \in DOMAIN trace
            /\ trace[i + 1].ev = "msg_call"
            /\ trace[i + 1].id = id
            /\ trace[i + 1].pos = args.pos
            /\ trace[i + 1].kw = args.kw
            /\ IF trace[i].ev = "msg_except"
               THEN FuncRaisedWith(id, trace[i + 1].e)
               ELSE trace[i + 1].e = ""

\* C18: a message (Verbosity.PARAMETERS, target) invokes target with exactly
\* the positional and keyword arguments of the call of the decorated
\* function, the exception first in the except slot, and no other argument.
C18_TargetArguments ==
    /\ \A k \in DOMAIN stack : ParamsDispatch(stack[k].id, Given(stack[k].func), stack[k].args)
    /\ last.op = "call" => ParamsDispatch(last.id, Given(last.func), last.args)

\* C19: the matched calls of a binding whose wrapped function raises (an
\* Exception) all end the way the first of them ended: the exception
\* swallowed, or an exception raised to the caller.
C19_SamePolicy ==
    (/\ last.op = "call"
     /\ Matched(last)
     /\ \E e \in UserExceptions : IsException(e) /\ FuncRaisedWith(last.id, e)
     /\ first[last.func] # "none")
    => last.outcome = first[last.func]

\* C20: add(name, value) with a string and an integer leaves level as it
\* was, whatever the name, the names of the attributes of the class such as
\* "level" included.
C20_AddKeepsLevel ==
    [][(last'.op = "add" /\ last'.a.t = "str" /\ last'.b.t = "int") => level' = level]_vars

====
